---- MODULE Spec2Model ----
(***************************************************************************)
(* A model of the incremental HTTP request parser of cppress               *)
(* (libs/http/src/http_request_parser.cpp) together with the part of       *)
(* http_server that feeds it (libs/http/src/http_server.cpp).              *)
(*                                                                         *)
(* Bytes are one-character strings, byte strings are sequences of them.    *)
(* A std::multimap<string,string> is a function from the names present to  *)
(* the sequence of their values in insertion order.                        *)
(***************************************************************************)
EXTENDS Integers, Sequences, FiniteSets, TLC

\* ------------------------------------------------------------------------
\* Configuration (http_consts.hpp, namespace config) and model bounds
\* ------------------------------------------------------------------------
MAX_BODY_SIZE == 3
MAX_HEADER_SIZE == 42
MAX_IDLE_TIME_SECONDS == 1

\* the steady clock is observed up to MaxTime seconds
MaxTime == 3

\* ------------------------------------------------------------------------
\* Bytes
\* ------------------------------------------------------------------------
CR == "\r"
LF == "\n"
SP == " "
HT == "\t"

LowerLetters == <<"a","b","c","d","e","f","g","h","i","j","k","l","m",
                  "n","o","p","q","r","s","t","u","v","w","x","y","z">>
UpperLetters == <<"A","B","C","D","E","F","G","H","I","J","K","L","M",
                  "N","O","P","Q","R","S","T","U","V","W","X","Y","Z">>
Digits == <<"0","1","2","3","4","5","6","7","8","9">>

\* std::toupper on one byte
toupper(ch) ==
    IF \E i \in 1..26 : LowerLetters[i] = ch
    THEN UpperLetters[CHOOSE i \in 1..26 : LowerLetters[i] = ch]
    ELSE ch

\* to_uppercase: std::transform with std::toupper over the whole string
to_uppercase(str) == [i \in 1..Len(str) |-> toupper(str[i])]

\* std::isspace for the bytes the model uses (what operator>> skips)
isspace(ch) == ch \in {SP, HT, CR, LF}

isdigit(ch) == \E i \in 1..10 : Digits[i] = ch

DigitValue(ch) == (CHOOSE i \in 1..10 : Digits[i] = ch) - 1

\* the byte string of a C++ string literal, written as a tuple of bytes
CONTENT_LENGTH == to_uppercase(<<"c","o","n","t","e","n","t","-","l","e","n","g","t","h">>)
TRANSFER_ENCODING ==
    to_uppercase(<<"T","r","a","n","s","f","e","r","-","E","n","c","o","d","i","n","g">>)

\* framing-error sentinels carried in the method field; a sentinel is kept
\* as a byte string of one unit, which no received byte can equal
BAD_METHOD_OR_URI_OR_VERSION == <<"BAD_METHOD_OR_URI_OR_VERSION">>
BAD_HEADERS_TOO_LARGE == <<"BAD_HEADERS_TOO_LARGE">>
BAD_REPEATED == <<"BAD_REPEATED_LENGTH_OR_TRANSFER_ENCODING_OR_BOTH">>
UNSUPPORTED_CHUNKED == <<"UNSUPPORTED_TRANSFER_ENCODING_CHUNKED">>
BAD_CONTENT_TOO_LARGE == <<"BAD_CONTENT_TOO_LARGE">>
UNSUPPORTED_PARSE_STRATEGY == <<"UNSUPPORTED_PARSE_STRATEGY">>
\* the method on_message_received gives the request it builds when parse() throws
BAD_REQUEST == <<"BAD_REQUEST">>
Sentinels == {BAD_METHOD_OR_URI_OR_VERSION, BAD_HEADERS_TOO_LARGE, BAD_REPEATED,
              UNSUPPORTED_CHUNKED, BAD_CONTENT_TOO_LARGE, UNSUPPORTED_PARSE_STRATEGY}

\* ------------------------------------------------------------------------
\* String and stream primitives of the C++ library, as the parser uses them
\* ------------------------------------------------------------------------
\* s.substr(from) with a 1-based index
SubstrFrom(s, from) == SubSeq(s, from, Len(s))

\* s.find(ch): 1-based index of the first ch, 0 for npos
find(s, ch) ==
    IF \E i \in 1..Len(s) : s[i] = ch
    THEN CHOOSE i \in 1..Len(s) : s[i] = ch /\ \A j \in 1..(i-1) : s[j] # ch
    ELSE 0

\* s.find_first_not_of(" \t"): 1-based index, 0 for npos
find_first_not_of(s, set) ==
    IF \E i \in 1..Len(s) : s[i] \notin set
    THEN CHOOSE i \in 1..Len(s) : s[i] \notin set /\ \A j \in 1..(i-1) : s[j] \in set
    ELSE 0

\* s.find_last_not_of(" \t"): 1-based index, 0 for npos
find_last_not_of(s, set) ==
    IF \E i \in 1..Len(s) : s[i] \notin set
    THEN CHOOSE i \in 1..Len(s) : s[i] \notin set /\ \A j \in (i+1)..Len(s) : s[j] \in set
    ELSE 0

\* std::getline(stream, line) on a stream over s whose next unread byte is
\* s[p]: ok is the stream's truth value afterwards, next the new position
getline(s, p) ==
    IF p > Len(s)
    THEN [ok |-> FALSE, line |-> <<>>, next |-> p]
    ELSE LET rest == SubstrFrom(s, p)
             nl == find(rest, LF)
         IN IF nl = 0
            THEN [ok |-> TRUE, line |-> rest, next |-> Len(s) + 1]
            ELSE [ok |-> TRUE, line |-> SubSeq(rest, 1, nl - 1), next |-> p + nl]

\* the line with one trailing '\r' popped
StripCR(line) ==
    IF line # <<>> /\ line[Len(line)] = CR THEN SubSeq(line, 1, Len(line) - 1) ELSE line

\* the position of the first non-whitespace byte of line at or after p,
\* Len(line) + 1 when there is none (what operator>> skips to)
SkipSpace(line, p) ==
    IF \E i \in p..Len(line) : ~isspace(line[i])
    THEN CHOOSE i \in p..Len(line) :
             ~isspace(line[i]) /\ \A j \in p..(i-1) : isspace(line[j])
    ELSE Len(line) + 1

\* the position of the first whitespace byte of line at or after b,
\* Len(line) + 1 when there is none (where operator>> stops)
TokenEnd(line, b) ==
    IF \E i \in b..Len(line) : isspace(line[i])
    THEN CHOOSE i \in b..Len(line) :
             isspace(line[i]) /\ \A j \in b..(i-1) : ~isspace(line[j])
    ELSE Len(line) + 1

\* one formatted extraction (stream >> token) from line at position p:
\* skips whitespace, then takes bytes up to the next whitespace
ExtractToken(line, p) ==
    [token |-> SubSeq(line, SkipSpace(line, p), TokenEnd(line, SkipSpace(line, p)) - 1),
     next |-> TokenEnd(line, SkipSpace(line, p))]

RECURSIVE DecimalValue(_)
DecimalValue(ds) ==
    IF ds = <<>> THEN 0
    ELSE 10 * DecimalValue(SubSeq(ds, 1, Len(ds) - 1)) + DigitValue(ds[Len(ds)])

\* the length of the longest run of digits that str starts with
DigitRun(str) ==
    IF \E i \in 1..Len(str) : ~isdigit(str[i])
    THEN (CHOOSE i \in 1..Len(str) :
              ~isdigit(str[i]) /\ \A j \in 1..(i-1) : isdigit(str[j])) - 1
    ELSE Len(str)

\* the conversion of str, which starts at its first non-whitespace byte
ConvertDigits(str) ==
    IF DigitRun(str) = 0
    THEN [ok |-> FALSE, value |-> 0]
    ELSE [ok |-> TRUE, value |-> DecimalValue(SubSeq(str, 1, DigitRun(str)))]

\* std::stoull(str): leading whitespace is skipped, then the longest run of
\* digits is converted; ok = FALSE stands for std::invalid_argument
stoull(str) == ConvertDigits(SubstrFrom(str, SkipSpace(str, 1)))

\* ------------------------------------------------------------------------
\* std::multimap<std::string, std::string>
\* ------------------------------------------------------------------------
NoHeaders == <<>>

count(headers, name) == IF name \in DOMAIN headers THEN Len(headers[name]) ELSE 0

emplace(headers, name, value) ==
    IF name \in DOMAIN headers
    THEN [headers EXCEPT ![name] = Append(@, value)]
    ELSE [n \in DOMAIN headers \cup {name} |->
             IF n = name THEN <<value>> ELSE headers[n]]

\* ------------------------------------------------------------------------
\* http_parse_result, http_parse_state
\* ------------------------------------------------------------------------
http_parse_result(complete, method, uri, version, headers, body) ==
    [is_complete |-> complete, method |-> method, uri |-> uri,
     http_version |-> version, headers |-> headers, body |-> body]

\* no parse() call has returned yet
NoResult == [none |-> TRUE]
\* parse() left by an exception (std::stoull)
Threw == [threw |-> TRUE]

CONTENT_LENGTH_STRATEGY == "CONTENT_LENGTH"

\* std::map<std::string, http_parse_state>
NoPending == <<>>

erase(map, key) == [k \in DOMAIN map \ {key} |-> map[k]]

\* ------------------------------------------------------------------------
\* http_request_parser
\* ------------------------------------------------------------------------
\* request_line >> method >> uri >> version, given the first extractions
ThirdToken(line, t1, t2) == <<t1.token, t2.token, ExtractToken(line, t2.next).token>>

SecondToken(line, t1) == ThirdToken(line, t1, ExtractToken(line, t1.next))

ExtractTokens(line) == SecondToken(line, ExtractToken(line, 1))

\* the test of line 119 and the return, with the stream left at next
RequestLineResult(tokens, next) ==
    [valid |-> ~(tokens[1] = <<>> \/ tokens[2] = <<>> \/ tokens[3] = <<>>),
     error |-> IF tokens[1] = <<>> \/ tokens[2] = <<>> \/ tokens[3] = <<>>
               THEN BAD_METHOD_OR_URI_OR_VERSION ELSE <<>>,
     method |-> tokens[1], uri |-> tokens[2], version |-> tokens[3], next |-> next]

\* parse_request_line after its getline returned gl
RequestLineFrom(gl) ==
    IF gl.ok /\ gl.line # <<>>
    THEN RequestLineResult(ExtractTokens(StripCR(gl.line)), gl.next)
    ELSE RequestLineResult(<<<<>>, <<>>, <<>>>>, gl.next)

parse_request_line(s) == RequestLineFrom(getline(s, 1))

\* the first trimming step: leading spaces and tabs
TrimStart(raw) ==
    IF find_first_not_of(raw, {SP, HT}) # 0
    THEN SubstrFrom(raw, find_first_not_of(raw, {SP, HT}))
    ELSE raw

\* the second trimming step: trailing spaces and tabs
TrimEnd(raw) ==
    IF find_last_not_of(raw, {SP, HT}) # 0
    THEN SubSeq(raw, 1, find_last_not_of(raw, {SP, HT}))
    ELSE raw

\* the value of a header line after the two trimming steps
TrimValue(raw) == TrimEnd(TrimStart(raw))

\* the while loop of parse_headers from stream position p; blank records
\* that the loop was left at the empty line (not at end of input)
RECURSIVE parse_headers_loop(_, _, _, _)

\* a line with a colon: count it, then stop or store it and read on
HeaderField(s, next, headers, header_name, header_value, size) ==
    IF size > MAX_HEADER_SIZE
    THEN [valid |-> FALSE, headers |-> NoHeaders, next |-> next, blank |-> FALSE]
    ELSE parse_headers_loop(s, next,
                            emplace(headers, to_uppercase(header_name), header_value), size)

\* the loop body counting the bytes of a line without a colon as well
HeaderLine_CountsNoColon(s, next, headers, headers_size, line, colon_pos) ==
    IF colon_pos = 0
    THEN parse_headers_loop(s, next, headers, headers_size + Len(line))
    ELSE HeaderField(s, next, headers,
                     SubSeq(line, 1, colon_pos - 1),
                     TrimValue(SubstrFrom(line, colon_pos + 1)),
                     headers_size + (colon_pos - 1)
                         + Len(TrimValue(SubstrFrom(line, colon_pos + 1))))

\* the loop body for a non-empty line whose first colon is at colon_pos
HeaderLine(s, next, headers, headers_size, line, colon_pos) ==
    IF colon_pos = 0
    THEN parse_headers_loop(s, next, headers, headers_size)
    ELSE HeaderField(s, next, headers,
                     SubSeq(line, 1, colon_pos - 1),
                     TrimValue(SubstrFrom(line, colon_pos + 1)),
                     headers_size + (colon_pos - 1)
                         + Len(TrimValue(SubstrFrom(line, colon_pos + 1))))

\* the loop after getline returned gl, with line the line without its '\r'
HeaderStep(s, headers, headers_size, gl, line) ==
    IF ~gl.ok
    THEN [valid |-> TRUE, headers |-> headers, next |-> gl.next, blank |-> FALSE]
    ELSE IF line = <<>>
    THEN [valid |-> TRUE, headers |-> headers, next |-> gl.next, blank |-> TRUE]
    ELSE HeaderLine(s, gl.next, headers, headers_size, line, find(line, ":"))

parse_headers_loop(s, p, headers, headers_size) ==
    HeaderStep(s, headers, headers_size, getline(s, p), StripCR(getline(s, p).line))

parse_headers(s, p) == parse_headers_loop(s, p, NoHeaders, 0)

\* "chunked" as bytes
Chunked == <<"c","h","u","n","k","e","d">>

tolower(ch) ==
    IF \E i \in 1..26 : UpperLetters[i] = ch
    THEN LowerLetters[CHOOSE i \in 1..26 : UpperLetters[i] = ch]
    ELSE ch

\* the search for "chunked" without the lower-casing before it
ContainsChunked_CaseSensitive(value) ==
    \E i \in 1..(Len(value) - 6) :
        [j \in 1..7 |-> value[i + j - 1]] = Chunked

\* tmp.find("chunked") != npos
ContainsChunked(value) ==
    \E i \in 1..(Len(value) - 6) :
        [j \in 1..7 |-> tolower(value[i + j - 1])] = Chunked

has_chunked_encoding(values) == \E i \in 1..Len(values) : ContainsChunked(values[i])

\* the map after the insert of line 196 and the field assignments after it
InsertState(pending, connection_id, method, uri, version, headers, content_length, body, socket_fd, t) ==
    [k \in DOMAIN pending \cup {connection_id} |->
        IF k = connection_id
        THEN [connection_id |-> connection_id,
              socket_fd |-> socket_fd,
              strategy |-> CONTENT_LENGTH_STRATEGY,
              expected_body_length |-> content_length,
              method |-> method, uri |-> uri, http_version |-> version,
              headers |-> headers,
              accumulated_body |-> body,
              last_activity |-> t]
        ELSE pending[k]]

\* parse_content_length_body storing the state before it looks at the sizes
parse_content_length_body_StoresFirst(pending, connection_id, s, p, method, uri, version, headers, content_length, socket_fd, t) ==
    LET body == SubstrFrom(s, p)
        stored == InsertState(pending, connection_id, method, uri, version, headers,
                              content_length, body, socket_fd, t)
    IN IF Len(body) = content_length
       THEN [result |-> http_parse_result(TRUE, method, uri, version, headers, body),
             pending |-> stored]
       ELSE IF Len(body) > content_length \/ Len(body) > MAX_BODY_SIZE
       THEN [result |-> http_parse_result(TRUE, BAD_CONTENT_TOO_LARGE, uri, version,
                                          headers, <<>>),
             pending |-> stored]
       ELSE [result |-> http_parse_result(FALSE, method, uri, version, headers, body),
             pending |-> stored]

\* parse_content_length_body comparing the body with MAX_BODY_SIZE only
parse_content_length_body_OnlyMax(pending, connection_id, s, p, method, uri, version, headers, content_length, socket_fd, t) ==
    LET body == SubstrFrom(s, p)
    IN IF Len(body) = content_length
       THEN [result |-> http_parse_result(TRUE, method, uri, version, headers, body),
             pending |-> pending]
       ELSE IF Len(body) > MAX_BODY_SIZE
       THEN [result |-> http_parse_result(TRUE, BAD_CONTENT_TOO_LARGE, uri, version,
                                          headers, <<>>),
             pending |-> pending]
       ELSE [result |-> http_parse_result(FALSE, method, uri, version, headers, body),
             pending |-> InsertState(pending, connection_id, method, uri, version,
                                     headers, content_length, body, socket_fd, t)]

\* pending is the map before the call, s the request stream with its next
\* unread byte at p, t the steady clock
parse_content_length_body(pending, connection_id, s, p, method, uri, version, headers, content_length, socket_fd, t) ==
    LET body == SubstrFrom(s, p)
    IN IF Len(body) = content_length
       THEN [result |-> http_parse_result(TRUE, method, uri, version, headers, body),
             pending |-> pending]
       ELSE IF Len(body) > content_length \/ Len(body) > MAX_BODY_SIZE
       THEN [result |-> http_parse_result(TRUE, BAD_CONTENT_TOO_LARGE, uri, version,
                                          headers, <<>>),
             pending |-> pending]
       ELSE [result |-> http_parse_result(FALSE, method, uri, version, headers, body),
             pending |-> InsertState(pending, connection_id, method, uri, version,
                                     headers, content_length, body, socket_fd, t)]

\* begin_parsing handing the bytes after the head to a request without
\* framing headers as its body
FrameBody_KeepsRest(pending, connection_id, data, socket_fd, t, rl, headers, next) ==
    LET has_transfer_encoding ==
            TRANSFER_ENCODING \in DOMAIN headers
            /\ has_chunked_encoding(headers[TRANSFER_ENCODING])
        has_content_length == CONTENT_LENGTH \in DOMAIN headers
    IN IF count(headers, CONTENT_LENGTH) > 1
          \/ (has_content_length /\ has_transfer_encoding)
       THEN [result |-> http_parse_result(TRUE, BAD_REPEATED, rl.uri, rl.version,
                                          headers, <<>>),
             pending |-> pending]
       ELSE IF has_content_length
       THEN IF ~stoull(headers[CONTENT_LENGTH][1]).ok
            THEN [result |-> Threw, pending |-> pending]
            ELSE parse_content_length_body(pending, connection_id, data, next,
                                           rl.method, rl.uri, rl.version, headers,
                                           stoull(headers[CONTENT_LENGTH][1]).value,
                                           socket_fd, t)
       ELSE IF has_transfer_encoding
       THEN [result |-> http_parse_result(TRUE, UNSUPPORTED_CHUNKED, rl.uri, rl.version,
                                          headers, <<>>),
             pending |-> pending]
       ELSE [result |-> http_parse_result(TRUE, rl.method, rl.uri, rl.version,
                                          headers, SubstrFrom(data, next)),
             pending |-> pending]

\* begin_parsing from line 59 on: the framing headers decide
FrameBody(pending, connection_id, data, socket_fd, t, rl, headers, next) ==
    LET has_transfer_encoding ==
            TRANSFER_ENCODING \in DOMAIN headers
            /\ has_chunked_encoding(headers[TRANSFER_ENCODING])
        has_content_length == CONTENT_LENGTH \in DOMAIN headers
    IN IF count(headers, CONTENT_LENGTH) > 1
          \/ (has_content_length /\ has_transfer_encoding)
       THEN [result |-> http_parse_result(TRUE, BAD_REPEATED, rl.uri, rl.version,
                                          headers, <<>>),
             pending |-> pending]
       ELSE IF has_content_length
       THEN IF ~stoull(headers[CONTENT_LENGTH][1]).ok
            THEN [result |-> Threw, pending |-> pending]
            ELSE parse_content_length_body(pending, connection_id, data, next,
                                           rl.method, rl.uri, rl.version, headers,
                                           stoull(headers[CONTENT_LENGTH][1]).value,
                                           socket_fd, t)
       ELSE IF has_transfer_encoding
       THEN [result |-> http_parse_result(TRUE, UNSUPPORTED_CHUNKED, rl.uri, rl.version,
                                          headers, <<>>),
             pending |-> pending]
       ELSE [result |-> http_parse_result(TRUE, rl.method, rl.uri, rl.version,
                                          headers, <<>>),
             pending |-> pending]

\* begin_parsing from line 55 on, parse_headers having returned hd
AfterHeaders(pending, connection_id, data, socket_fd, t, rl, hd) ==
    IF ~hd.valid
    THEN [result |-> http_parse_result(TRUE, BAD_HEADERS_TOO_LARGE, rl.uri, rl.version,
                                       NoHeaders, <<>>),
          pending |-> pending]
    ELSE FrameBody(pending, connection_id, data, socket_fd, t, rl, hd.headers, hd.next)

\* begin_parsing from line 49 on, parse_request_line having returned rl
AfterRequestLine(pending, connection_id, data, socket_fd, t, rl) ==
    IF ~rl.valid
    THEN [result |-> http_parse_result(TRUE, rl.error, rl.uri, rl.version,
                                       NoHeaders, <<>>),
          pending |-> pending]
    ELSE AfterHeaders(pending, connection_id, data, socket_fd, t, rl,
                      parse_headers(data, rl.next))

begin_parsing(pending, connection_id, data, socket_fd, t) ==
    AfterRequestLine(pending, connection_id, data, socket_fd, t, parse_request_line(data))

\* accumulate_body_data putting the new bytes in front of the buffered ones
accumulate_body_data_Prepends(pending, connection_id, data) ==
    LET state == pending[connection_id]
        acc == data \o state.accumulated_body
        kept == [pending EXCEPT ![connection_id].accumulated_body = acc]
    IN IF Len(acc) > MAX_BODY_SIZE
       THEN [result |-> http_parse_result(TRUE, BAD_CONTENT_TOO_LARGE, state.uri,
                                          state.http_version, state.headers, <<>>),
             pending |-> kept]
       ELSE IF Len(acc) = state.expected_body_length
       THEN [result |-> http_parse_result(TRUE, state.method, state.uri,
                                          state.http_version, state.headers, acc),
             pending |-> erase(kept, state.connection_id)]
       ELSE IF Len(acc) > state.expected_body_length \/ Len(acc) > MAX_BODY_SIZE
       THEN [result |-> http_parse_result(TRUE, BAD_CONTENT_TOO_LARGE, state.uri,
                                          state.http_version, state.headers, <<>>),
             pending |-> kept]
       ELSE [result |-> http_parse_result(FALSE, state.method, state.uri,
                                          state.http_version, NoHeaders, <<>>),
             pending |-> kept]

\* state is pending[connection_id], already stamped by continue_parsing
accumulate_body_data(pending, connection_id, data) ==
    LET state == pending[connection_id]
        acc == state.accumulated_body \o data
        kept == [pending EXCEPT ![connection_id].accumulated_body = acc]
    IN IF Len(acc) > MAX_BODY_SIZE
       THEN [result |-> http_parse_result(TRUE, BAD_CONTENT_TOO_LARGE, state.uri,
                                          state.http_version, state.headers, <<>>),
             pending |-> kept]
       ELSE IF Len(acc) = state.expected_body_length
       THEN [result |-> http_parse_result(TRUE, state.method, state.uri,
                                          state.http_version, state.headers, acc),
             pending |-> erase(kept, state.connection_id)]
       ELSE IF Len(acc) > state.expected_body_length \/ Len(acc) > MAX_BODY_SIZE
       THEN [result |-> http_parse_result(TRUE, BAD_CONTENT_TOO_LARGE, state.uri,
                                          state.http_version, state.headers, <<>>),
             pending |-> kept]
       ELSE [result |-> http_parse_result(FALSE, state.method, state.uri,
                                          state.http_version, NoHeaders, <<>>),
             pending |-> kept]

continue_parsing(pending, connection_id, data, t) ==
    LET stamped == [pending EXCEPT ![connection_id].last_activity = t]
        state == stamped[connection_id]
    IN IF state.strategy # CONTENT_LENGTH_STRATEGY
       THEN [result |-> http_parse_result(TRUE, UNSUPPORTED_PARSE_STRATEGY, state.uri,
                                          state.http_version, NoHeaders, <<>>),
             pending |-> stamped]
       ELSE accumulate_body_data(stamped, connection_id, data)

\* parse(conn, data) with conn's remote endpoint string and native handle
parse(pending, connection_id, socket_fd, data, t) ==
    IF connection_id \in DOMAIN pending
    THEN continue_parsing(pending, connection_id, data, t)
    ELSE begin_parsing(pending, connection_id, data, socket_fd, t)

\* the idle test with the two time points exchanged
IdleKeys_Reversed(pending, max_idle_time, t) ==
    {k \in DOMAIN pending : pending[k].last_activity - t > max_idle_time}

\* cleanup_idle_connections: the states the loop erases, and the map it leaves
IdleKeys(pending, max_idle_time, t) ==
    {k \in DOMAIN pending : t - pending[k].last_activity > max_idle_time}

\* cleanup_idle_connections that erases no state
cleanup_idle_connections_KeepsStates(pending, max_idle_time, t) == pending

cleanup_idle_connections(pending, max_idle_time, t) ==
    [k \in DOMAIN pending \ IdleKeys(pending, max_idle_time, t) |-> pending[k]]

\* ------------------------------------------------------------------------
\* The byte streams clients send: one request each, possibly malformed
\* ------------------------------------------------------------------------
CRLF == <<CR, LF>>

RECURSIVE JoinLines(_)
JoinLines(lines) ==
    IF lines = <<>> THEN <<>> ELSE (Head(lines) \o CRLF) \o JoinLines(Tail(lines))

\* "Content-Length:" followed by value
ContentLengthLine(value) ==
    <<"C","o","n","t","e","n","t","-","L","e","n","g","t","h",":">> \o value

DigitOf(n) == <<Digits[n + 1]>>

\* body bytes are pairwise distinct, so that their order is observable
BodyBytes == <<"p","q","r","s","t","u">>

Bodies == {SubSeq(BodyBytes, 1, n) : n \in 0..(MAX_BODY_SIZE + 2)}

GoodRequestLine == <<"G", SP, "/", SP, "H">>

RequestLines ==
    {GoodRequestLine,
     <<"G", SP, "/">>,
     <<"G", SP, "/", SP, "H", SP, "x">>,
     <<SP, SP>>,
     <<>>}

\* "Transfer-Encoding:" followed by value
TransferEncodingLine(value) ==
    <<"T","r","a","n","s","f","e","r","-","E","n","c","o","d","i","n","g",":">> \o value

\* a header with a name of 26 bytes and an empty value; with Content-Length
\* and one digit it leaves one byte below MAX_HEADER_SIZE
Filler == LowerLetters \o <<":">>

NoColonLine == <<"N","o","C","o","l","o","n">>

\* header blocks that frame a body by one Content-Length, or by nothing
HeaderBlocks ==
    {<<ContentLengthLine(DigitOf(n))>> : n \in 0..(MAX_BODY_SIZE + 2)}
    \cup
    {<<>>,
     <<ContentLengthLine(<<SP>> \o DigitOf(MAX_BODY_SIZE) \o <<HT>>)>>,
     <<<<"c","o","n","t","e","n","t","-","l","e","n","g","t","h",":","1">>>>,
     <<NoColonLine, ContentLengthLine(DigitOf(1))>>,
     <<<<"A", ":", SP, SP>>>>,
     <<ContentLengthLine(<<"x">>)>>}

\* header blocks at the header-size limit
LimitBlocks ==
    {<<Filler, ContentLengthLine(DigitOf(2)), <<"A", ":">>>>,
     <<Filler, ContentLengthLine(DigitOf(2)), <<"A", ":", "b">>>>,
     <<Filler, ContentLengthLine(DigitOf(0)), <<"A", ":", SP, SP>>>>,
     <<Filler, NoColonLine, ContentLengthLine(DigitOf(2)), <<"A", ":">>>>}

\* header blocks with repeated or competing framing headers
FramingBlocks ==
    {<<ContentLengthLine(DigitOf(1)), ContentLengthLine(DigitOf(1))>>,
     <<ContentLengthLine(DigitOf(1)), TransferEncodingLine(Chunked)>>,
     <<ContentLengthLine(DigitOf(1)), TransferEncodingLine(<<"x">>)>>,
     <<TransferEncodingLine(<<"x">>)>>,
     <<TransferEncodingLine(<<SP, "C","h","U","n","K","e","D">>)>>,
     <<TransferEncodingLine(<<"x">>), TransferEncodingLine(Chunked)>>}

\* the bodies sent after a block of LimitBlocks or FramingBlocks
ShortBodies == {SubSeq(BodyBytes, 1, n) : n \in {0, 2}}

Request(line, block, body) == ((line \o CRLF) \o JoinLines(block)) \o (CRLF \o body)

Streams ==
    {Request(GoodRequestLine, block, body) : block \in HeaderBlocks, body \in Bodies}
    \cup
    {Request(GoodRequestLine, block, body) :
         block \in LimitBlocks \cup FramingBlocks, body \in ShortBodies}
    \cup
    {Request(line, <<>>, <<>>) : line \in RequestLines}

\* ------------------------------------------------------------------------
\* Connections: the remote endpoint string keys the parser's map, the
\* native handle is what the idle sweep closes
\* ------------------------------------------------------------------------
Conns == {"c1", "c2"}

remote_endpoint(c) == IF c = "c1" THEN "10.0.0.1:5001" ELSE "10.0.0.2:5002"

\* the keys of std::map<std::string, ...> in its iteration order
EndpointOrder == <<remote_endpoint("c1"), remote_endpoint("c2")>>

\* accept() gives a connection the lowest descriptor that is free, so a
\* connection accepted when no other is open gets the same handle again
native_handle(c) == 5

\* the thread that runs cleanup_idle_connections; the parse() call for a
\* connection is a thread of its own name
Sweeper == "sweeper"
Threads == Conns \cup {Sweeper}

\* parser_mutex_ when no thread owns it
Free == "free"

\* the connection accepted when the server starts, and the requests of the
\* connections accepted after it
FirstConn == "c1"
LaterStreams ==
    {Request(GoodRequestLine, <<ContentLengthLine(DigitOf(2))>>, SubSeq(BodyBytes, 1, n)) :
         n \in {1, 2}}

VARIABLES
    pending_requests_,  \* the parser's map of incomplete requests
    parser_mutex_,      \* the thread that owns the parser's mutex, or Free
    inside,             \* per thread: 0, or how it is inside the parser
                        \* (parse: the size of its chunk; sweeper: 1)
    now,                \* std::chrono::steady_clock, in seconds
    stream,             \* per connection: the bytes its client sends
    pos,                \* per connection: how many of them the server has read
    firstCut,           \* per connection: the size of the first chunk read (0: none)
    accepted,           \* per connection: it has been accepted
    reading,            \* per connection: the server still reads from it
    open,               \* per connection: it is accepted and not closed
    result,             \* per connection: what the last parse() returned
    completes,          \* per connection: parse() calls that returned is_complete
    requests,           \* per connection: the requests given to on_request_received
    headers_calls,      \* per connection: the calls of on_headers_received
    web,                \* the web server handling one request
    server,             \* the http_server object: its life, and what the
                        \* sweeper thread did after the server stopped
    connection,         \* a sockets::connection object and the calls made on it
    close_calls         \* handles the idle sweep passed to close_connection

vars == <<pending_requests_, parser_mutex_, inside, now, stream, pos, firstCut,
          accepted, reading, open, result, completes, requests, headers_calls, web,
          server, connection, close_calls>>

\* the server as its constructor leaves it: the sweeper thread has made no
\* call after a shutdown or destruction
Running == [state |-> "running", late_cleanup |-> FALSE, late_close |-> FALSE]

\* INVALID_SOCKET_VALUE, the handle of an invalidated file_descriptor
INVALID_SOCKET_VALUE == 0 - 1

\* a connection as its constructor leaves it: open, with the handle accept()
\* returned; released lists the handles given to close_socket, wire the
\* bytes given to ::send, returned what each call on the object returned
NewConnection ==
    [open_ |-> TRUE, fd |-> native_handle(FirstConn), released |-> <<>>, wire |-> <<>>,
     returned |-> <<>>]

\* what does not depend on the streams chosen
InitServer ==
    /\ pending_requests_ = NoPending
    /\ parser_mutex_ = Free
    /\ inside = [t \in Threads |-> 0]
    /\ now = 0
    /\ pos = [c \in Conns |-> 0]
    /\ firstCut = [c \in Conns |-> 0]
    /\ accepted = [c \in Conns |-> c = FirstConn]
    /\ reading = [c \in Conns |-> c = FirstConn]
    /\ open = [c \in Conns |-> c = FirstConn]
    /\ result = [c \in Conns |-> NoResult]
    /\ completes = [c \in Conns |-> 0]
    /\ requests = [c \in Conns |-> <<>>]
    /\ headers_calls = [c \in Conns |-> <<>>]
    /\ server = Running
    /\ connection = NewConnection
    /\ close_calls = <<>>

\* the web server before any request has reached it
NoWeb == [phase |-> "none"]

Init ==
    /\ InitServer
    /\ web = NoWeb
    /\ stream \in {f \in [Conns -> Streams] :
                      \A c \in Conns \ {FirstConn} :
                          f[c] = Request(GoodRequestLine, <<>>, <<>>)}

\* on_message_received going on reading after a complete result
Finished_OnlyThrow(r) == r = Threw

\* a parse() outcome after which on_message_received stops reading
Finished(r) == r = Threw \/ r.is_complete

\* epoll_server::stop_reading_from_connection: no further chunk of the
\* connection is delivered
stop_reading_from_connection(rd, c) == [rd EXCEPT ![c] = FALSE]

\* epoll_server::close_connection(int), for each handle of fds: the
\* connection registered under the handle is closed
close_connection(op, fds) == [c \in Conns |-> op[c] /\ native_handle(c) \notin fds]

\* the requests on_message_received hands to on_request_received after a
\* parse() call that returned r or threw
on_request_received(reqs, r) ==
    IF r = Threw
    THEN Append(reqs, [method |-> BAD_REQUEST, is_complete |-> FALSE, responses |-> 1])
    ELSE IF ~r.is_complete
    THEN reqs
    ELSE Append(reqs, [method |-> r.method, is_complete |-> r.is_complete,
                       responses |-> 1])

\* the calls of on_headers_received after a parse() call that returned r
\* when received bytes of the connection had been delivered
on_headers_received(calls, r, received) ==
    IF r = Threw
    THEN calls
    ELSE Append(calls, [method |-> r.method, uri |-> r.uri, version |-> r.http_version,
                        headers |-> r.headers, body |-> r.body, received |-> received])

\* on_message_received for the next k bytes of connection c: parse() and,
\* unless the result is incomplete, stop_reading_from_connection and
\* on_request_received
on_message_received(c, k) ==
    /\ \E out \in {parse(pending_requests_, remote_endpoint(c), native_handle(c),
                           SubSeq(stream[c], pos[c] + 1, pos[c] + k), now)} :
          /\ pending_requests_' = out.pending
          /\ result' = [result EXCEPT ![c] = out.result]
          /\ reading' = IF Finished(out.result)
                        THEN stop_reading_from_connection(reading, c)
                        ELSE reading
          /\ completes' = [completes EXCEPT ![c] =
                               IF out.result # Threw /\ out.result.is_complete
                               THEN @ + 1 ELSE @]
          /\ requests' = [requests EXCEPT ![c] = on_request_received(@, out.result)]
          /\ headers_calls' = [headers_calls EXCEPT
                                  ![c] = on_headers_received(@, out.result, pos[c] + k)]
    /\ pos' = [pos EXCEPT ![c] = @ + k]
    /\ firstCut' = [firstCut EXCEPT ![c] = IF @ = 0 THEN k ELSE @]
    /\ UNCHANGED <<now, stream, accepted, open, close_calls, web, server, connection>>

\* the next k bytes of connection c are delivered and handled; the mutex
\* makes the parse() call one step
Receive(c, k) ==
    /\ open[c] /\ reading[c]
    /\ pos[c] + k <= Len(stream[c])
    /\ now + MAX_IDLE_TIME_SECONDS < MaxTime
    /\ on_message_received(c, k)
    /\ UNCHANGED <<parser_mutex_, inside>>

\* the keys cleanup_idle_connections erases, in the order its loop meets them
IdleSeq(pending, max_idle_time, t) ==
    SelectSeq(EndpointOrder, LAMBDA k : k \in IdleKeys(pending, max_idle_time, t))

\* the handles the loop passes to close_connection, call by call
ClosedHandles(pending, idle) == [i \in 1..Len(idle) |-> pending[idle[i]].socket_fd]

\* the sweeper thread's call of cleanup_idle_connections, whose callback
\* closes the connection registered under the handle
cleanup ==
    LET idle == IdleSeq(pending_requests_, MAX_IDLE_TIME_SECONDS, now)
        fds == ClosedHandles(pending_requests_, idle)
    IN /\ pending_requests_' =
              cleanup_idle_connections(pending_requests_, MAX_IDLE_TIME_SECONDS, now)
       /\ open' = close_connection(open, {fds[i] : i \in 1..Len(fds)})
       /\ close_calls' = close_calls \o fds
       /\ UNCHANGED <<now, stream, pos, firstCut, accepted, reading, result, completes,
                      requests, headers_calls, web, connection>>

\* the call made while the server runs
sweep == cleanup /\ UNCHANGED server

Sweep == sweep /\ UNCHANGED <<parser_mutex_, inside>>

\* the steady clock advances
Tick ==
    /\ now < MaxTime
    /\ now' = now + 1
    /\ UNCHANGED <<pending_requests_, parser_mutex_, inside, stream, pos, firstCut,
                   accepted, reading, open, result, completes, requests, headers_calls,
                   web, server, close_calls, connection>>

\* the connection goes away (the peer hangs up, or the response ends it);
\* on_connection_closed does not touch the parser
Close(c) ==
    /\ open[c]
    /\ open' = [open EXCEPT ![c] = FALSE]
    /\ UNCHANGED <<pending_requests_, parser_mutex_, inside, now, stream, pos, firstCut,
                   accepted, reading, result, completes, requests, headers_calls,
                   web, server, close_calls, connection>>

Next ==
    \/ \E c \in Conns : \E k \in 1..Len(stream[c]) : Receive(c, k)
    \/ Sweep
    \/ Tick
    \/ \E c \in Conns : Close(c)

Spec == Init /\ [][Next]_vars

\* under a sweeper thread that keeps running and a clock that advances
FairSpec == Spec /\ WF_vars(Tick) /\ WF_vars(Sweep)

\* ------------------------------------------------------------------------
\* Connections that come and go: a later connection is accepted once the
\* handle is free again
\* ------------------------------------------------------------------------
ReuseStreams ==
    {Request(GoodRequestLine, <<ContentLengthLine(DigitOf(n))>>, SubSeq(BodyBytes, 1, m)) :
         n \in {0, 3}, m \in {0, 1}}

ReuseInit ==
    /\ InitServer
    /\ web = NoWeb
    /\ stream \in {f \in [Conns -> ReuseStreams \cup LaterStreams] :
                      /\ f[FirstConn] \in ReuseStreams
                      /\ \A c \in Conns \ {FirstConn} : f[c] \in LaterStreams}

\* on_connection_opened for a connection the listener accepts
Accept(c) ==
    /\ ~accepted[c]
    /\ \A d \in Conns : open[d] => native_handle(d) # native_handle(c)
    /\ accepted' = [accepted EXCEPT ![c] = TRUE]
    /\ open' = [open EXCEPT ![c] = TRUE]
    /\ reading' = [reading EXCEPT ![c] = TRUE]
    /\ UNCHANGED <<pending_requests_, parser_mutex_, inside, now, stream, pos, firstCut,
                   result, completes, requests, headers_calls,
                   web, server, close_calls, connection>>

ReuseNext ==
    \/ \E c \in Conns : \E k \in 1..Len(stream[c]) : Receive(c, k)
    \/ Sweep
    \/ Tick
    \/ \E c \in Conns : Close(c)
    \/ \E c \in Conns : Accept(c)

ReuseSpec == ReuseInit /\ [][ReuseNext]_vars

\* ------------------------------------------------------------------------
\* The parser's mutex: parse() and cleanup_idle_connections() each hold a
\* std::lock_guard on parser_mutex_ from their first statement to their return
\* ------------------------------------------------------------------------
\* a lock_guard constructor that returns without owning the mutex
lock_guard_NoWait(m) == TRUE

\* the lock_guard constructor returns once no thread owns the mutex
lock_guard(m) == m = Free

\* on_message_received calls parse() with the next k bytes of c
ParseLock(c, k) ==
    /\ open[c] /\ reading[c]
    /\ inside[c] = 0
    /\ pos[c] + k <= Len(stream[c])
    /\ lock_guard(parser_mutex_)
    /\ parser_mutex_' = c
    /\ inside' = [inside EXCEPT ![c] = k]
    /\ UNCHANGED <<pending_requests_, now, stream, pos, firstCut, accepted, reading,
                   open, result, completes, requests, headers_calls,
                   web, server, close_calls, connection>>

\* parse() returns, its lock_guard releases, on_message_received goes on
ParseReturn(c) ==
    /\ inside[c] > 0
    /\ on_message_received(c, inside[c])
    /\ parser_mutex_' = IF parser_mutex_ = c THEN Free ELSE parser_mutex_
    /\ inside' = [inside EXCEPT ![c] = 0]

\* the sweeper thread calls cleanup_idle_connections()
SweepLock ==
    /\ inside[Sweeper] = 0
    /\ lock_guard(parser_mutex_)
    /\ parser_mutex_' = Sweeper
    /\ inside' = [inside EXCEPT ![Sweeper] = 1]
    /\ UNCHANGED <<pending_requests_, now, stream, pos, firstCut, accepted, reading,
                   open, result, completes, requests, headers_calls,
                   web, server, close_calls, connection>>

\* cleanup_idle_connections() runs its loop and returns
SweepReturn ==
    /\ inside[Sweeper] > 0
    /\ sweep
    /\ parser_mutex_' = IF parser_mutex_ = Sweeper THEN Free ELSE parser_mutex_
    /\ inside' = [inside EXCEPT ![Sweeper] = 0]

LockNext ==
    \/ \E c \in Conns : \E k \in 1..Len(stream[c]) : ParseLock(c, k)
    \/ \E c \in Conns : ParseReturn(c)
    \/ SweepLock
    \/ SweepReturn
    \/ Tick
    \/ \E c \in Conns : Close(c)

LockSpec == Init /\ [][LockNext]_vars

\* ------------------------------------------------------------------------
\* What a connection's first chunk holds
\* ------------------------------------------------------------------------
FirstChunk(c) == SubSeq(stream[c], 1, firstCut[c])

RequestLineOf(data) == parse_request_line(data)

HeadersOf(data) == parse_headers(data, RequestLineOf(data).next)

\* data holds a valid request line, a header block ended by its blank line
\* and exactly one Content-Length header with a decimal value, unchunked
ContentLengthHead(data) ==
    /\ RequestLineOf(data).valid
    /\ HeadersOf(data).valid
    /\ HeadersOf(data).blank
    /\ count(HeadersOf(data).headers, CONTENT_LENGTH) = 1
    /\ stoull(HeadersOf(data).headers[CONTENT_LENGTH][1]).ok
    /\ TRANSFER_ENCODING \notin DOMAIN HeadersOf(data).headers

DeclaredLength(data) == stoull(HeadersOf(data).headers[CONTENT_LENGTH][1]).value

\* the bytes of data after the blank line
BodyIn(data) == SubstrFrom(data, HeadersOf(data).next)

\* the body bytes connection c has received so far, in receive order
BodyReceived(c) == SubSeq(stream[c], HeadersOf(FirstChunk(c)).next, pos[c])

\* the request the first chunk's head describes, with the given body
RequestOf(data, body) ==
    http_parse_result(TRUE, RequestLineOf(data).method, RequestLineOf(data).uri,
                      RequestLineOf(data).version, HeadersOf(data).headers, body)

\* ------------------------------------------------------------------------
\* C1: a Content-Length request whose head arrived in the first chunk with
\* fewer than L <= MAX_BODY_SIZE body bytes stays incomplete while the body
\* received is shorter than L, and the call that brings it to exactly L
\* returns it complete with the head of the first chunk and the body bytes
\* in receive order
\* ------------------------------------------------------------------------
C1_Case(c) ==
    /\ firstCut[c] > 0
    /\ ContentLengthHead(FirstChunk(c))
    /\ DeclaredLength(FirstChunk(c)) <= MAX_BODY_SIZE
    /\ Len(BodyIn(FirstChunk(c))) < DeclaredLength(FirstChunk(c))

C1_SplitBodyCompletes ==
    \A c \in Conns :
        C1_Case(c) =>
            /\ Len(BodyReceived(c)) < DeclaredLength(FirstChunk(c))
                   => result[c] # Threw /\ result[c].is_complete = FALSE
            /\ Len(BodyReceived(c)) = DeclaredLength(FirstChunk(c))
                   => result[c] = RequestOf(FirstChunk(c), BodyReceived(c))

C1_Witness ==
    \E c \in Conns :
        /\ C1_Case(c)
        /\ Len(BodyReceived(c)) = DeclaredLength(FirstChunk(c))
        /\ Len(BodyReceived(c)) - Len(BodyIn(FirstChunk(c))) >= 2
        /\ Len(BodyIn(FirstChunk(c))) >= 1
        /\ result[c].is_complete

\* ------------------------------------------------------------------------
\* C2: a request delivered whole in one chunk whose Content-Length equals
\* the number of bytes after the blank line (0 included) is returned
\* complete by that call, with its real method and exactly those bytes as
\* body, and no parse state is left for the connection
\* ------------------------------------------------------------------------
C2_Case(c) ==
    /\ firstCut[c] = Len(stream[c])
    /\ ContentLengthHead(stream[c])
    /\ DeclaredLength(stream[c]) = Len(BodyIn(stream[c]))

C2_WholeRequestCompletes ==
    \A c \in Conns :
        C2_Case(c) =>
            /\ result[c] = RequestOf(stream[c], BodyIn(stream[c]))
            /\ result[c].method \notin Sentinels
            /\ Len(result[c].body) = DeclaredLength(stream[c])
            /\ remote_endpoint(c) \notin DOMAIN pending_requests_

C2_Witness ==
    \E c \in Conns :
        /\ C2_Case(c)
        /\ DeclaredLength(stream[c]) = 0
        /\ result[c].is_complete
        /\ result[c].body = <<>>

\* ------------------------------------------------------------------------
\* C3: feeding a stream in consecutive chunks, wherever the cuts fall,
\* ends with the parse result that feeding it in one call returns
\* ------------------------------------------------------------------------
WholeResult(c) ==
    parse(NoPending, remote_endpoint(c), native_handle(c), stream[c], 0).result

C3_SplitEqualsWhole ==
    \A c \in Conns :
        pos[c] = Len(stream[c]) =>
            IF WholeResult(c) = Threw THEN result[c] = Threw
            ELSE IF WholeResult(c).is_complete THEN result[c] = WholeResult(c)
            ELSE result[c] # Threw /\ ~result[c].is_complete

\* ------------------------------------------------------------------------
\* C4: a connection never gets two is_complete results, and one whose
\* request is incomplete does not stay open and incomplete forever
\* ------------------------------------------------------------------------
Incomplete(c) == firstCut[c] > 0 /\ result[c] # Threw /\ ~result[c].is_complete

Evicted(c) == \E i \in 1..Len(close_calls) : native_handle(c) = close_calls[i]

C5_StateIffInFlight ==
    \A c \in Conns :
        remote_endpoint(c) \in DOMAIN pending_requests_
            <=> (Incomplete(c) /\ ~Evicted(c))

\* ------------------------------------------------------------------------
\* C6: every state in the map has accumulated at most its expected body
\* length and at most MAX_BODY_SIZE bytes
\* ------------------------------------------------------------------------
C6_BodyBound ==
    \A k \in DOMAIN pending_requests_ :
        /\ Len(pending_requests_[k].accumulated_body)
               <= pending_requests_[k].expected_body_length
        /\ Len(pending_requests_[k].accumulated_body) <= MAX_BODY_SIZE

\* ------------------------------------------------------------------------
\* C7: once all its body has been received, in one chunk or in several, a
\* request with a body of exactly MAX_BODY_SIZE bytes is returned complete
\* with that body and one with MAX_BODY_SIZE + 1 bytes is rejected with
\* BAD_CONTENT_TOO_LARGE
\* ------------------------------------------------------------------------
C7_Case(c, len) ==
    /\ firstCut[c] > 0
    /\ ContentLengthHead(FirstChunk(c))
    /\ DeclaredLength(FirstChunk(c)) = len
    /\ Len(BodyReceived(c)) = len
    /\ pos[c] = Len(stream[c])

C7_BodyLimit ==
    \A c \in Conns :
        /\ C7_Case(c, MAX_BODY_SIZE)
               => result[c] = RequestOf(FirstChunk(c), BodyReceived(c))
        /\ C7_Case(c, MAX_BODY_SIZE + 1)
               => /\ result[c] # Threw
                  /\ result[c].is_complete
                  /\ result[c].method = BAD_CONTENT_TOO_LARGE

\* ------------------------------------------------------------------------
\* C8: no state is stored, and no body byte buffered, for a request that
\* declares a Content-Length above MAX_BODY_SIZE
\* ------------------------------------------------------------------------
C8_DeclaredLengthChecked ==
    \A k \in DOMAIN pending_requests_ :
        pending_requests_[k].expected_body_length <= MAX_BODY_SIZE

\* ------------------------------------------------------------------------
\* C9: with a valid request line, the first call returns
\* BAD_HEADERS_TOO_LARGE exactly when the header names plus the header
\* values without their leading and trailing spaces and tabs add up to
\* more than MAX_HEADER_SIZE
\* ------------------------------------------------------------------------
\* raw without its leading and trailing spaces and tabs
Trimmed(raw) ==
    IF \A i \in 1..Len(raw) : raw[i] \in {SP, HT}
    THEN <<>>
    ELSE SubSeq(raw, find_first_not_of(raw, {SP, HT}), find_last_not_of(raw, {SP, HT}))

RECURSIVE HeaderTotalFrom(_, _)
HeaderTotalFrom(data, p) ==
    LET gl == getline(data, p)
        line == StripCR(gl.line)
        colon == find(line, ":")
    IN IF ~gl.ok \/ line = <<>> THEN 0
       ELSE (IF colon = 0 THEN 0
             ELSE (colon - 1) + Len(Trimmed(SubstrFrom(line, colon + 1))))
            + HeaderTotalFrom(data, gl.next)

HeaderTotal(data) == HeaderTotalFrom(data, getline(data, 1).next)

C9_HeaderLimit ==
    \A c \in Conns :
        (firstCut[c] > 0 /\ pos[c] = firstCut[c] /\ RequestLineOf(FirstChunk(c)).valid)
            => ((result[c] # Threw /\ result[c].method = BAD_HEADERS_TOO_LARGE)
                    <=> HeaderTotal(FirstChunk(c)) > MAX_HEADER_SIZE)

\* ------------------------------------------------------------------------
\* C10: the first call rejects the request with
\* BAD_METHOD_OR_URI_OR_VERSION exactly when its first line does not split
\* on whitespace into exactly three tokens
\* ------------------------------------------------------------------------
FirstLine(data) == StripCR(getline(data, 1).line)

NumTokens(line) ==
    Cardinality({i \in 1..Len(line) :
                    ~isspace(line[i]) /\ (i = 1 \/ isspace(line[i - 1]))})

C10_RequestLine ==
    \A c \in Conns :
        (firstCut[c] > 0 /\ pos[c] = firstCut[c])
            => ((result[c] # Threw /\ result[c].is_complete
                    /\ result[c].method = BAD_METHOD_OR_URI_OR_VERSION)
                    <=> NumTokens(FirstLine(FirstChunk(c))) # 3)

\* ------------------------------------------------------------------------
\* The first parse() call of a connection
\* ------------------------------------------------------------------------
\* connection c has had exactly its first chunk parsed
AfterFirstCall(c) == firstCut[c] > 0 /\ pos[c] = firstCut[c]

\* the first chunk's request line and header block pass parse_request_line
\* and the header-size limit
HeadAccepted(data) == RequestLineOf(data).valid /\ HeadersOf(data).valid

\* ------------------------------------------------------------------------
\* C11: a header block within the size limit that holds more than one
\* Content-Length header, or a Content-Length header together with a
\* Transfer-Encoding header of any value, is answered by the first call
\* with BAD_REPEATED_LENGTH_OR_TRANSFER_ENCODING_OR_BOTH
\* ------------------------------------------------------------------------
C11_Case(c) ==
    /\ AfterFirstCall(c)
    /\ HeadAccepted(FirstChunk(c))
    /\ \/ count(HeadersOf(FirstChunk(c)).headers, CONTENT_LENGTH) > 1
       \/ /\ CONTENT_LENGTH \in DOMAIN HeadersOf(FirstChunk(c)).headers
          /\ TRANSFER_ENCODING \in DOMAIN HeadersOf(FirstChunk(c)).headers

C11_RepeatedFraming ==
    \A c \in Conns :
        C11_Case(c) =>
            /\ result[c] # Threw
            /\ result[c].is_complete
            /\ result[c].method = BAD_REPEATED

\* ------------------------------------------------------------------------
\* C12: a header block within the size limit without Content-Length whose
\* Transfer-Encoding holds "chunked" in any letter case is answered by the
\* first call with is_complete and UNSUPPORTED_TRANSFER_ENCODING_CHUNKED,
\* and no parse state is stored
\* ------------------------------------------------------------------------
\* value holds the letters of "chunked" in a row, in either case each
HoldsChunkedAnyCase(value) ==
    \E i \in 1..(Len(value) - Len(Chunked) + 1) :
        \A j \in 1..Len(Chunked) :
            value[i + j - 1] \in {Chunked[j], toupper(Chunked[j])}

C12_Case(c) ==
    /\ AfterFirstCall(c)
    /\ HeadAccepted(FirstChunk(c))
    /\ CONTENT_LENGTH \notin DOMAIN HeadersOf(FirstChunk(c)).headers
    /\ TRANSFER_ENCODING \in DOMAIN HeadersOf(FirstChunk(c)).headers
    /\ \E i \in 1..Len(HeadersOf(FirstChunk(c)).headers[TRANSFER_ENCODING]) :
           HoldsChunkedAnyCase(HeadersOf(FirstChunk(c)).headers[TRANSFER_ENCODING][i])

C12_ChunkedUnsupported ==
    \A c \in Conns :
        C12_Case(c) =>
            /\ result[c] # Threw
            /\ result[c].is_complete
            /\ result[c].method = UNSUPPORTED_CHUNKED
            /\ remote_endpoint(c) \notin DOMAIN pending_requests_

C12_Witness ==
    \E c \in Conns :
        /\ C12_Case(c)
        /\ result[c].method = UNSUPPORTED_CHUNKED
        /\ \A i \in 1..Len(result[c].headers[TRANSFER_ENCODING]) :
               ~ContainsChunked_CaseSensitive(result[c].headers[TRANSFER_ENCODING][i])

\* ------------------------------------------------------------------------
\* C13: a first chunk with a valid request line and a header block within
\* the size limit that holds neither Content-Length nor Transfer-Encoding
\* is returned complete by the first call, with its real method and an
\* empty body whatever bytes follow the blank line, and no state is stored
\* ------------------------------------------------------------------------
C13_Case(c) ==
    /\ AfterFirstCall(c)
    /\ HeadAccepted(FirstChunk(c))
    /\ CONTENT_LENGTH \notin DOMAIN HeadersOf(FirstChunk(c)).headers
    /\ TRANSFER_ENCODING \notin DOMAIN HeadersOf(FirstChunk(c)).headers

C13_NoBodyComplete ==
    \A c \in Conns :
        C13_Case(c) =>
            /\ result[c] = RequestOf(FirstChunk(c), <<>>)
            /\ result[c].method \notin Sentinels
            /\ completes[c] = 1
            /\ remote_endpoint(c) \notin DOMAIN pending_requests_

C13_Witness ==
    \E c \in Conns :
        /\ C13_Case(c)
        /\ HeadersOf(FirstChunk(c)).blank
        /\ Len(BodyIn(FirstChunk(c))) >= 2
        /\ result[c].is_complete
        /\ result[c].body = <<>>

\* ------------------------------------------------------------------------
\* C14: a first chunk that holds more body bytes than its Content-Length
\* declares is answered with is_complete, BAD_CONTENT_TOO_LARGE and an
\* empty body, and no parse state is stored
\* ------------------------------------------------------------------------
C14_Case(c) ==
    /\ AfterFirstCall(c)
    /\ ContentLengthHead(FirstChunk(c))
    /\ Len(BodyIn(FirstChunk(c))) > DeclaredLength(FirstChunk(c))

C14_OverLengthRejected ==
    \A c \in Conns :
        C14_Case(c) =>
            /\ result[c] # Threw
            /\ result[c].is_complete
            /\ result[c].method = BAD_CONTENT_TOO_LARGE
            /\ result[c].body = <<>>
            /\ remote_endpoint(c) \notin DOMAIN pending_requests_

C14_Witness ==
    \E c \in Conns :
        /\ C14_Case(c)
        /\ Len(BodyIn(FirstChunk(c))) <= MAX_BODY_SIZE
        /\ result[c].method = BAD_CONTENT_TOO_LARGE

\* ------------------------------------------------------------------------
\* C15: the header map of every parse result has uppercase names and
\* values that neither begin nor end with a space or tab, and the first
\* call's map holds, for each received header line, the uppercase form of
\* its name and its value without its leading and trailing spaces and tabs
\* ------------------------------------------------------------------------
RECURSIVE ReceivedHeadersFrom(_, _, _)
ReceivedHeadersFrom(data, p, headers) ==
    LET gl == getline(data, p)
        line == StripCR(gl.line)
        colon == find(line, ":")
    IN IF ~gl.ok \/ line = <<>> THEN headers
       ELSE IF colon = 0 THEN ReceivedHeadersFrom(data, gl.next, headers)
       ELSE ReceivedHeadersFrom(data, gl.next,
                                emplace(headers, to_uppercase(SubSeq(line, 1, colon - 1)),
                                        Trimmed(SubstrFrom(line, colon + 1))))

ReceivedHeaders(data) == ReceivedHeadersFrom(data, getline(data, 1).next, NoHeaders)

HasLowerCase(name) == \E i \in 1..Len(name) : \E k \in 1..26 : name[i] = LowerLetters[k]

Padded(value) == value # <<>> /\ (value[1] \in {SP, HT} \/ value[Len(value)] \in {SP, HT})

C15_HeadersNormalised ==
    \A c \in Conns :
        (firstCut[c] > 0 /\ result[c] # Threw) =>
            /\ \A name \in DOMAIN result[c].headers :
                   /\ ~HasLowerCase(name)
                   /\ \A i \in 1..Len(result[c].headers[name]) :
                          ~Padded(result[c].headers[name][i])
            /\ (AfterFirstCall(c) /\ HeadAccepted(FirstChunk(c)))
                   => result[c].headers = ReceivedHeaders(FirstChunk(c))

\* ------------------------------------------------------------------------
\* C16: header lines without ':' are skipped: the first call answers, and
\* leaves the map, as it does for the same chunk without those lines
\* (no entry, no byte counted toward MAX_HEADER_SIZE, no error)
\* ------------------------------------------------------------------------
\* data from position p on, with the header lines that hold no ':' taken out
RECURSIVE WithoutNoColonFrom(_, _)
WithoutNoColonFrom(data, p) ==
    LET gl == getline(data, p)
        line == StripCR(gl.line)
    IN IF ~gl.ok THEN <<>>
       ELSE IF line = <<>> THEN SubstrFrom(data, p)
       ELSE IF find(line, ":") = 0 THEN WithoutNoColonFrom(data, gl.next)
       ELSE SubSeq(data, p, gl.next - 1) \o WithoutNoColonFrom(data, gl.next)

\* data with the header lines that hold no ':' taken out
WithoutNoColon(data) ==
    SubSeq(data, 1, getline(data, 1).next - 1)
        \o WithoutNoColonFrom(data, getline(data, 1).next)

\* the number of header lines of data without ':'
RECURSIVE NoColonLinesFrom(_, _)
NoColonLinesFrom(data, p) ==
    LET gl == getline(data, p)
        line == StripCR(gl.line)
    IN IF ~gl.ok \/ line = <<>> THEN 0
       ELSE (IF find(line, ":") = 0 THEN 1 ELSE 0) + NoColonLinesFrom(data, gl.next)

NoColonLines(data) == NoColonLinesFrom(data, getline(data, 1).next)

\* the time of the call that stored the state of c, 0 when there is none
CallTime(c) ==
    IF remote_endpoint(c) \in DOMAIN pending_requests_
    THEN pending_requests_[remote_endpoint(c)].last_activity
    ELSE 0

\* what the first call of c returns and leaves in the map, computed on data
FirstCallOn(c, data) ==
    parse(NoPending, remote_endpoint(c), native_handle(c), data, CallTime(c))

C16_NoColonSkipped ==
    \A c \in Conns :
        (AfterFirstCall(c) /\ close_calls = <<>> /\ NoColonLines(FirstChunk(c)) > 0) =>
            /\ result[c] = FirstCallOn(c, WithoutNoColon(FirstChunk(c))).result
            /\ pending_requests_ = FirstCallOn(c, WithoutNoColon(FirstChunk(c))).pending
            /\ result[c] # Threw =>
                   \A name \in DOMAIN result[c].headers : find(name, ":") = 0

C16_Witness ==
    \E c \in Conns :
        /\ AfterFirstCall(c)
        /\ close_calls = <<>>
        /\ NoColonLines(FirstChunk(c)) > 0
        /\ HeadersOf(FirstChunk(c)).blank
        /\ HeaderTotal(FirstChunk(c)) = MAX_HEADER_SIZE
        /\ result[c] # Threw
        /\ CONTENT_LENGTH \in DOMAIN result[c].headers

\* ------------------------------------------------------------------------
\* C17: at most one thread is inside parse() or cleanup_idle_connections()
\* at a time and it owns the mutex, and the map changes only in a step of
\* that thread: its return, which applies one whole call; so the sweeper
\* erases nothing while a parse() call is under way
\* ------------------------------------------------------------------------
InsideThreads == {t \in Threads : inside[t] > 0}

C17_MutexHeld ==
    /\ [](/\ Cardinality(InsideThreads) <= 1
          /\ \A t \in InsideThreads : parser_mutex_ = t)
    /\ [][pending_requests_' # pending_requests_
              => /\ InsideThreads = {parser_mutex_}
                 /\ inside'[parser_mutex_] = 0]_vars

\* the sweeper is kept out while a parse() call works on a state that has
\* become idle
C17_Witness ==
    \E c \in Conns :
        /\ inside[c] > 0
        /\ parser_mutex_ = c
        /\ inside[Sweeper] = 0
        /\ remote_endpoint(c) \in IdleKeys(pending_requests_, MAX_IDLE_TIME_SECONDS, now)

\* ------------------------------------------------------------------------
\* C18: a cleanup_idle_connections call erases every state older than
\* max_idle and calls close_fn once for each of them, and leaves every
\* other state in the map unchanged with its connection open
\* ------------------------------------------------------------------------
\* the connection whose remote endpoint is the key k
Owner(k) == CHOOSE c \in Conns : remote_endpoint(c) = k

\* the calls of close_fn a step adds
NewCloseCalls == SubSeq(close_calls', Len(close_calls) + 1, Len(close_calls'))

C18_SweepExact ==
    [][Sweep =>
          /\ Len(NewCloseCalls)
                 = Cardinality(IdleKeys(pending_requests_, MAX_IDLE_TIME_SECONDS, now))
          /\ \A k \in DOMAIN pending_requests_ :
                 IF now - pending_requests_[k].last_activity > MAX_IDLE_TIME_SECONDS
                 THEN /\ k \notin DOMAIN pending_requests_'
                      /\ \E i \in 1..Len(NewCloseCalls) :
                             NewCloseCalls[i] = pending_requests_[k].socket_fd
                 ELSE /\ k \in DOMAIN pending_requests_'
                      /\ pending_requests_'[k] = pending_requests_[k]
                      /\ open[Owner(k)] => open'[Owner(k)]]_vars

\* ------------------------------------------------------------------------
\* C19: a connection that an idle sweep closes owns a parse state that has
\* not progressed within the threshold
\* ------------------------------------------------------------------------
C19_SweepClosesOwner ==
    [][\A c \in Conns :
           (open[c] /\ ~open'[c] /\ close_calls' # close_calls)
               => remote_endpoint(c)
                      \in IdleKeys(pending_requests_, MAX_IDLE_TIME_SECONDS, now)]_vars

\* ------------------------------------------------------------------------
\* C20: every request given to on_request_received comes from a complete
\* parse result whose method is not a framing-error sentinel
\* ------------------------------------------------------------------------
C20_OnlyRealRequests ==
    \A c \in Conns :
        \A i \in 1..Len(requests[c]) :
            /\ requests[c][i].is_complete
            /\ requests[c][i].method \notin Sentinels

\* ------------------------------------------------------------------------
\* C21: every request given to the request callback is built from a parse
\* result that parse() returned with is_complete = true, and one response
\* object is created with it
\* ------------------------------------------------------------------------
C21_RequestsFromCompleteParse ==
    \A c \in Conns :
        \A i \in 1..Len(requests[c]) :
            /\ requests[c][i].is_complete
            /\ requests[c][i].responses = 1

\* ------------------------------------------------------------------------
\* C22: every call of on_headers_received comes when the bytes delivered
\* hold the request's valid request line and its header block up to the
\* blank line, and passes the method, uri, version and headers of that
\* request
\* ------------------------------------------------------------------------
\* the number of bytes of data up to and with the blank line
HeadLength(data) == HeadersOf(data).next - 1

C22_HeadersAfterHead ==
    \A c \in Conns :
        \A i \in 1..Len(headers_calls[c]) :
            /\ HeadAccepted(stream[c])
            /\ HeadersOf(stream[c]).blank
            /\ headers_calls[c][i].received >= HeadLength(stream[c])
            /\ headers_calls[c][i].method = RequestLineOf(stream[c]).method
            /\ headers_calls[c][i].uri = RequestLineOf(stream[c]).uri
            /\ headers_calls[c][i].version = RequestLineOf(stream[c]).version
            /\ headers_calls[c][i].headers = HeadersOf(stream[c]).headers

EXIT == "EXIT"
CONTINUE == "CONTINUE"
ERROR == "_ERROR"

\* a handler that does not return: it throws, or returns a value that is no
\* exit_code, for which route::handle_request throws
THROW == "THROW"

\* shared::unknown_method with a list that holds nothing
unknown_method_OnlyEmpty(method) == method = ""

\* shared::unknown_method: the method is not in known_methods
unknown_method(method) ==
    method \notin {"GET", "POST", "PUT", "DELETE", "PATCH", "HEAD", "OPTIONS"}

\* is_uri_static: the bytes after a '.' of the uri are a static extension
\* (css and js, of shared::static_extensions)
is_uri_static(uri) ==
    \E i \in 1..Len(uri) :
        uri[i] = "." /\ SubstrFrom(uri, i + 1) \in {<<"c","s","s">>, <<"j","s">>}

\* a path split on '/' into its non-empty segments
RECURSIVE Segments(_)
Segments(path) ==
    IF path = <<>> THEN <<>>
    ELSE IF find(path, "/") = 0 THEN <<path>>
    ELSE IF find(path, "/") = 1 THEN Segments(Tail(path))
    ELSE <<SubSeq(path, 1, find(path, "/") - 1)>>
             \o Segments(SubstrFrom(path, find(path, "/") + 1))

\* a segment of the form :name, and its name
IsParam(segment) == segment # <<>> /\ segment[1] = ":"
ParamName(segment) == Tail(segment)

\* match_path on the segments e of the expression and r of the request path
MatchSegments(e, r) ==
    IF Len(e) = Len(r) /\ \A i \in 1..Len(e) : IsParam(e[i]) \/ e[i] = r[i]
    THEN [matched |-> TRUE,
          params |-> [n \in {ParamName(e[i]) : i \in {j \in 1..Len(e) : IsParam(e[j])}} |->
                         r[CHOOSE i \in 1..Len(e) : IsParam(e[i]) /\ ParamName(e[i]) = n]]]
    ELSE [matched |-> FALSE, params |-> <<>>]

match_path(expression, rhs) == MatchSegments(Segments(expression), Segments(rhs))

\* route::match that leaves the request's path parameters as they are
route_match_KeepsParams(route, request) ==
    [matched |-> route.method = request.method
                     /\ match_path(route.expression, request.uri).matched,
     path_params |-> request.path_params]

\* route::match without the comparison of the methods
route_match_AnyMethod(route, request) ==
    [matched |-> match_path(route.expression, request.uri).matched,
     path_params |-> IF match_path(route.expression, request.uri).matched
                     THEN match_path(route.expression, request.uri).params
                     ELSE request.path_params]

\* route::match: the answer, and the request's path parameters after it
route_match(route, request) ==
    [matched |-> route.method = request.method
                     /\ match_path(route.expression, request.uri).matched,
     path_params |-> IF match_path(route.expression, request.uri).matched
                     THEN match_path(route.expression, request.uri).params
                     ELSE request.path_params]

\* the index of the first handler of a chain that does not return CONTINUE,
\* 0 when all do
FirstStop(handlers) ==
    IF \E i \in 1..Len(handlers) : handlers[i] # CONTINUE
    THEN CHOOSE i \in 1..Len(handlers) :
             handlers[i] # CONTINUE /\ \A j \in 1..(i-1) : handlers[j] = CONTINUE
    ELSE 0

\* the index of the first handler that returns EXIT or throws, 0 when none
\* does
FirstExit(handlers) ==
    IF \E i \in 1..Len(handlers) : handlers[i] \in {EXIT, THROW}
    THEN CHOOSE i \in 1..Len(handlers) :
             /\ handlers[i] \in {EXIT, THROW}
             /\ \A j \in 1..(i-1) : handlers[j] \notin {EXIT, THROW}
    ELSE 0

\* route::handle_request going on after a handler that returns _ERROR
route_handle_request_IgnoresError(handlers) ==
    IF FirstExit(handlers) = 0
    THEN [ran |-> Len(handlers), code |-> EXIT]
    ELSE [ran |-> FirstExit(handlers), code |-> handlers[FirstExit(handlers)]]

\* route::handle_request: how many handlers of the chain run, and the
\* exit_code returned (THROW: an exception leaves the function)
route_handle_request(handlers) ==
    IF FirstStop(handlers) = 0
    THEN [ran |-> Len(handlers), code |-> EXIT]
    ELSE [ran |-> FirstStop(handlers), code |-> handlers[FirstStop(handlers)]]

\* the handlers 1..n of router ri, of its middleware (route 0) or of a route
Ran(ri, route, n) == [i \in 1..n |-> [router |-> ri, route |-> route, handler |-> i]]

\* the router's walk over its routes from index j on: the route that
\* matched (0: none) and the request after the match calls
RECURSIVE RouteWalk(_, _, _)
RouteWalk(routes, j, request) ==
    IF j > Len(routes)
    THEN [route |-> 0, request |-> request]
    ELSE IF route_match(routes[j], request).matched
    THEN [route |-> j,
          request |-> [request EXCEPT !.path_params = route_match(routes[j], request).path_params]]
    ELSE RouteWalk(routes, j + 1,
                   [request EXCEPT !.path_params = route_match(routes[j], request).path_params])

\* router::handle_request after its middleware fell through, walk being
\* the outcome of the walk over the routes
RouterRoutes(router, ri, walk) ==
    IF walk.route = 0
    THEN [handled |-> FALSE,
          threw |-> FALSE,
          log |-> Ran(ri, 0, Len(router.middlewares)),
          request |-> walk.request]
    ELSE [handled |-> route_handle_request(router.routes[walk.route].handlers).code # THROW,
          threw |-> route_handle_request(router.routes[walk.route].handlers).code = THROW,
          log |-> Ran(ri, 0, Len(router.middlewares))
                      \o Ran(ri, walk.route,
                             route_handle_request(router.routes[walk.route].handlers).ran),
          request |-> walk.request]

\* router::handle_request for the router of index ri: whether it reports
\* the request handled, whether an exception left it, the handlers it ran
\* in order, the request after it
router_handle_request(router, ri, request) ==
    IF FirstStop(router.middlewares) # 0
    THEN [handled |-> router.middlewares[FirstStop(router.middlewares)] # THROW,
          threw |-> router.middlewares[FirstStop(router.middlewares)] = THROW,
          log |-> Ran(ri, 0, FirstStop(router.middlewares)),
          request |-> request]
    ELSE RouterRoutes(router, ri, RouteWalk(router.routes, 1, request))

\* the loop over the routers consulting every router
RECURSIVE RouterLoop_NoBreak(_, _, _)
RouterLoop_NoBreak(routers, i, acc) ==
    IF i > Len(routers)
    THEN acc
    ELSE RouterLoop_NoBreak(routers, i + 1,
             [handled |-> acc.handled
                              \/ router_handle_request(routers[i], i, acc.request).handled,
              threw |-> acc.threw
                            \/ router_handle_request(routers[i], i, acc.request).threw,
              log |-> acc.log \o router_handle_request(routers[i], i, acc.request).log,
              request |-> router_handle_request(routers[i], i, acc.request).request,
              consulted |-> Append(acc.consulted, i)])

\* the loop of request_handler over the routers from index i on, acc being
\* what the routers before i left
RECURSIVE RouterLoop(_, _, _)
RouterLoop(routers, i, acc) ==
    IF i > Len(routers) \/ acc.handled \/ acc.threw
    THEN acc
    ELSE RouterLoop(routers, i + 1,
             [handled |-> router_handle_request(routers[i], i, acc.request).handled,
              threw |-> router_handle_request(routers[i], i, acc.request).threw,
              log |-> acc.log \o router_handle_request(routers[i], i, acc.request).log,
              request |-> router_handle_request(routers[i], i, acc.request).request,
              consulted |-> Append(acc.consulted, i)])

\* response::send writing the response at every call
send_Always(res) == [res EXCEPT !.sent = @ + 1, !.send_calls = @ + 1]

\* response::send: the first call writes the response to the connection,
\* a later call is a no-op
send(res) ==
    IF res.send_calls = 0
    THEN [res EXCEPT !.sent = @ + 1, !.send_calls = @ + 1]
    ELSE [res EXCEPT !.send_calls = @ + 1]

\* response::send_text: sets the body, then send()
send_text(res, text) == send([res EXCEPT !.body = text])

\* response::set_status
set_status(res, code) == [res EXCEPT !.status = code]

\* response::end: closes the connection
end(res) == [res EXCEPT !.ended = TRUE]

\* a response as on_message_received creates it
NewResponse == [status |-> 0, body |-> <<>>, sent |-> 0, send_calls |-> 0, ended |-> FALSE]

\* serve_static: 404 when no registered directory holds the file
serve_static(res, found) ==
    IF found
    THEN send(set_status([res EXCEPT !.body = <<"file">>], 200))
    ELSE send_text(set_status(res, 404), <<"404 Not Found">>)

\* the default handler run whether or not the request was handled
default_route_Always(w, handled) ==
    [w EXCEPT !.default_runs = @ + 1,
              !.response = IF w.default = "builtin"
                           THEN send_text(set_status(@, 404), <<"404 Not Found">>)
                           ELSE @]

\* if (!handled) handle_default_route(req, res)
default_route(w, handled) ==
    IF handled
    THEN w
    ELSE [w EXCEPT !.default_runs = @ + 1,
                   !.response = IF w.default = "builtin"
                                THEN send_text(set_status(@, 404), <<"404 Not Found">>)
                                ELSE @]

\* the exception a handler throws, and the one request_handler builds in
\* its catch block
Raised == [what |-> "handler", status_code |-> 403]
InternalError == [what |-> "Error in request handler thread", status_code |-> 500]

\* request_handler after its try/catch: send() and, keep_alive() being
\* false, end()
AfterTry(w) ==
    [w EXCEPT !.response = end(send(@)), !.phase = "done"]

\* server::on_unhandled_exception called with e: the registered callback
\* (which returns, or throws), or status, text and end()
on_unhandled_exception(w, e) ==
    IF w.error_handler = "none"
    THEN [w EXCEPT !.response = end(send_text(set_status(@, e.status_code),
                                              <<"Internal Server Error">>))]
    ELSE [w EXCEPT !.error_args = Append(@, e),
                   !.escaped = w.error_handler = "throws"]

\* request_handler from its catch block on, caught being w after
\* on_unhandled_exception: an exception of the callback leaves the function
AfterCatch(caught) ==
    IF caught.escaped
    THEN [caught EXCEPT !.phase = "escaped"]
    ELSE AfterTry(caught)

\* the try block of request_handler from the default handler on: send()
\* and, keep_alive() being false, end()
FinishRequest(w, handled) ==
    AfterTry([default_route(w, handled) EXCEPT
                  !.handled = handled,
                  !.response = end(send(default_route(w, handled).response))])

\* request_handler after the loop over the routers left loop
AfterRouters(w, loop) ==
    IF loop.threw
    THEN AfterCatch(on_unhandled_exception(
                        [w EXCEPT !.log = loop.log, !.consulted = loop.consulted,
                                  !.request = loop.request, !.threw = TRUE],
                        InternalError))
    ELSE FinishRequest([w EXCEPT !.log = loop.log, !.consulted = loop.consulted,
                                 !.request = loop.request],
                       loop.handled)

\* server::request_handler, run by a worker; found tells whether a static
\* directory holds the file asked for
request_handler(w, found) ==
    IF is_uri_static(w.request.uri)
    THEN FinishRequest([w EXCEPT !.response = serve_static(@, found)], TRUE)
    ELSE AfterRouters(w, RouterLoop(w.routers, 1,
                                    [handled |-> FALSE, threw |-> FALSE, log |-> <<>>,
                                     request |-> w.request, consulted |-> <<>>]))

\* the rejection of an unknown method without the response being sent
RejectUnknown_NoSend(w) ==
    [w EXCEPT !.response = end(set_status(@, 400)), !.phase = "done"]

\* server::on_request_received for an unknown method: 400, send, end
RejectUnknown(w) ==
    [w EXCEPT !.response = end(send_text(set_status(@, 400),
                                         <<"400 Bad Request: ", w.request.method>>)),
              !.phase = "done"]

\* server::on_request_received: reject, or enqueue request_handler
web_on_request_received(w) ==
    IF unknown_method(w.request.method)
    THEN RejectUnknown(w)
    ELSE [w EXCEPT !.enqueued = @ + 1, !.phase = "queued"]

\* ------------------------------------------------------------------------
\* The routers an application registers and the requests that reach it
\* ------------------------------------------------------------------------
RoutePool ==
    {[method |-> "GET", expression |-> <<"/","u","/",":","i">>, handlers |-> <<EXIT>>],
     [method |-> "GET", expression |-> <<"/","u","/","m","e">>,
      handlers |-> <<CONTINUE, EXIT>>],
     [method |-> "POST", expression |-> <<"/","u","/",":","i">>,
      handlers |-> <<ERROR, EXIT>>],
     [method |-> "GET", expression |-> <<"/",":","a","/",":","b">>,
      handlers |-> <<CONTINUE, CONTINUE>>],
     [method |-> "GET", expression |-> <<"/","u">>, handlers |-> <<CONTINUE, THROW, EXIT>>]}

\* the base router: middleware, and up to two different routes
BaseRouters ==
    {[middlewares |-> m, routes |-> rs] :
         m \in {<<>>, <<CONTINUE>>, <<CONTINUE, ERROR, CONTINUE>>},
         rs \in ({<<>>} \cup {<<r>> : r \in RoutePool}
                        \cup {<<r1, r2>> : r1, r2 \in RoutePool})
                    \ {<<r, r>> : r \in RoutePool}}

\* the routers of a server: the base router, and possibly one registered
\* with use_router
RouterLists ==
    {<<b>> : b \in BaseRouters}
        \cup {<<b, [middlewares |-> m, routes |-> rs]>> :
                  b \in BaseRouters,
                  m \in {<<>>, <<EXIT>>, <<THROW>>},
                  rs \in {<<>>} \cup {<<r>> : r \in {q \in RoutePool : Len(q.handlers) = 1}}}

\* a request handed to the web server: the methods are real ones and
\* framing-error sentinels of on_message_received
WebRequests ==
    {[phase |-> "received",
      routers |-> rs,
      default |-> d,
      error_handler |-> eh,
      error_args |-> <<>>,
      threw |-> FALSE,
      escaped |-> FALSE,
      request |-> [method |-> m, uri |-> u, path_params |-> <<>>],
      response |-> NewResponse,
      enqueued |-> 0,
      handled |-> FALSE,
      log |-> <<>>,
      consulted |-> <<>>,
      default_runs |-> 0] :
         rs \in RouterLists, d \in {"builtin", "custom"},
         eh \in {"none", "returns", "throws"},
         m \in {"GET", "POST", "BREW"}
                   \cup {x[1] : x \in {BAD_METHOD_OR_URI_OR_VERSION, BAD_CONTENT_TOO_LARGE,
                                        BAD_REQUEST}},
         u \in {<<"/","u","/","7">>, <<"/","u","/","m","e">>, <<"/","u">>,
                <<"/","/","u","/","/","7","/">>, <<"/","a",".","c","s","s">>}}

WebInit ==
    /\ InitServer
    /\ stream = [c \in Conns |-> Request(GoodRequestLine, <<>>, <<>>)]
    /\ web \in WebRequests

\* http_server hands the request over
WebReceive ==
    /\ web.phase = "received"
    /\ web' = web_on_request_received(web)
    /\ UNCHANGED <<pending_requests_, parser_mutex_, inside, now, stream, pos, firstCut,
                   accepted, reading, open, result, completes, requests, headers_calls,
                   server, connection, close_calls>>

\* a worker takes the task from the pool's queue and runs it
WebWork ==
    /\ web.phase = "queued"
    /\ \E found \in BOOLEAN : web' = request_handler(web, found)
    /\ UNCHANGED <<pending_requests_, parser_mutex_, inside, now, stream, pos, firstCut,
                   accepted, reading, open, result, completes, requests, headers_calls,
                   server, connection, close_calls>>

WebNext == WebReceive \/ WebWork

WebSpec == WebInit /\ [][WebNext]_vars

\* ------------------------------------------------------------------------
\* Claims about the web server
\* ------------------------------------------------------------------------
KnownMethods == {"GET", "POST", "PUT", "DELETE", "PATCH", "HEAD", "OPTIONS"}

\* C24: a request whose method is not one of GET, POST, PUT, DELETE, PATCH,
\* HEAD, OPTIONS is answered with status 400 and its connection ended, no
\* worker task is enqueued for it and no middleware, route handler or
\* default handler runs; a request with a known method is enqueued exactly
\* once.
C24_UnknownMethodRejected ==
    web.phase \in {"queued", "done"} =>
        IF web.request.method \in KnownMethods
        THEN web.enqueued = 1
        ELSE /\ web.phase = "done"
             /\ web.response.status = 400
             /\ web.response.ended
             /\ web.enqueued = 0
             /\ web.log = <<>>
             /\ web.consulted = <<>>
             /\ web.default_runs = 0

C24_Witness ==
    /\ web.phase = "done"
    /\ web.request.method = "BREW"
    /\ web.response.status = 400
    /\ web.response.ended
    /\ web.enqueued = 0
    /\ \E i \in 1..Len(web.routers) : web.routers[i].middlewares # <<>>

\* the methods the parser puts in a result to report a framing error
FramingErrors == {m[1] : m \in Sentinels}

Matches(route, request) ==
    /\ route.method = request.method
    /\ match_path(route.expression, request.uri).matched

\* the index of the first route, in insertion order, that matches; 0: none
FirstMatching(routes, request) ==
    IF \E j \in 1..Len(routes) : Matches(routes[j], request)
    THEN CHOOSE j \in 1..Len(routes) :
             /\ Matches(routes[j], request)
             /\ \A k \in 1..(j-1) : ~Matches(routes[k], request)
    ELSE 0

C27_PathParams ==
    web.phase = "done" =>
        \A i \in 1..Len(web.log) :
            web.log[i].route # 0 =>
                \A k \in 1..Len(Segments(web.routers[web.log[i].router].routes[web.log[i].route].expression)) :
                    IsParam(Segments(web.routers[web.log[i].router].routes[web.log[i].route].expression)[k]) =>
                        /\ ParamName(Segments(web.routers[web.log[i].router].routes[web.log[i].route].expression)[k])
                               \in DOMAIN web.request.path_params
                        /\ web.request.path_params[ParamName(Segments(web.routers[web.log[i].router].routes[web.log[i].route].expression)[k])]
                               = Segments(web.request.uri)[k]

C27_Witness ==
    /\ web.phase = "done"
    /\ web.request.uri = <<"/","/","u","/","/","7","/">>
    /\ \E i \in 1..Len(web.log) :
           /\ web.log[i].route # 0
           /\ web.routers[web.log[i].router].routes[web.log[i].route].expression
                  = <<"/",":","a","/",":","b">>
    /\ web.request.path_params[<<"a">>] = <<"u">>
    /\ web.request.path_params[<<"b">>] = <<"7">>

\* the chain a logged handler belongs to, and the code it returns
ChainOf(tag) ==
    IF tag.route = 0
    THEN web.routers[tag.router].middlewares
    ELSE web.routers[tag.router].routes[tag.route].handlers

CodeOf(tag) == ChainOf(tag)[tag.handler]

\* tag is the first handler a router runs
StartsRouter(tag) ==
    /\ tag.handler = 1
    /\ tag.route = 0 \/ web.routers[tag.router].middlewares = <<>>

\* q is the handler that runs next after p
Follows(p, q) ==
    \/ q.router = p.router /\ q.route = p.route /\ q.handler = p.handler + 1
    \/ /\ q.router = p.router /\ p.route = 0 /\ q.route # 0
       /\ p.handler = Len(ChainOf(p)) /\ q.handler = 1
    \/ /\ q.router > p.router /\ p.route = 0
       /\ p.handler = Len(ChainOf(p)) /\ StartsRouter(q)

\* C28: in the middleware walk and in a route's handler chain handlers run
\* in insertion order, one after the other while they return CONTINUE; the
\* first that returns EXIT or ERROR is the last handler that runs for the
\* request, and the request is handled.
C28_StopsAtExitOrError ==
    web.phase = "done" =>
        \A i \in 1..Len(web.log) :
            /\ i = 1 => StartsRouter(web.log[i])
            /\ i > 1 => Follows(web.log[i-1], web.log[i])
            /\ CodeOf(web.log[i]) # CONTINUE => i = Len(web.log)
            /\ CodeOf(web.log[i]) \in {EXIT, ERROR} =>
                   /\ web.handled
                   /\ web.default_runs = 0
            /\ (CodeOf(web.log[i]) = CONTINUE /\ web.log[i].handler < Len(ChainOf(web.log[i])))
                   => i < Len(web.log)

C28_Witness ==
    /\ web.phase = "done"
    /\ Len(web.routers) = 2
    /\ web.handled
    /\ \E i \in 1..Len(web.log) :
           /\ web.log[i].route # 0
           /\ CodeOf(web.log[i]) = ERROR
           /\ web.log[i].handler < Len(ChainOf(web.log[i]))
           /\ i = Len(web.log)
           /\ web.log[i].router = 1

\* the router of index i reports the request handled
Handles(i) == router_handle_request(web.routers[i], i, web.request).handled

\* C29: request_handler consults the routers in registration order, the
\* base router first, and stops at the first that reports the request
\* handled: no router after it is consulted.
C29_RoutersInOrder ==
    (/\ web.phase = "done" /\ web.enqueued = 1
     /\ ~is_uri_static(web.request.uri) /\ ~web.threw) =>
        /\ \A k \in 1..Len(web.consulted) :
               /\ web.consulted[k] = k
               /\ \A j \in 1..(k-1) : ~Handles(j)
        /\ Len(web.consulted) < Len(web.routers) =>
               /\ Len(web.consulted) >= 1
               /\ Handles(Len(web.consulted))

C29_Witness ==
    /\ web.phase = "done"
    /\ Len(web.routers) = 2
    /\ web.consulted = <<1>>
    /\ Handles(1)
    /\ Handles(2)

\* C30: for a non-static request no router handles, the default handler
\* runs exactly once, the built-in one setting status 404 and body
\* "404 Not Found"; it does not run for a request some router handled.
C30_DefaultHandler ==
    (/\ web.phase = "done" /\ web.enqueued = 1
     /\ ~is_uri_static(web.request.uri) /\ ~web.threw) =>
        /\ web.default_runs = IF \E i \in 1..Len(web.routers) : Handles(i) THEN 0 ELSE 1
        /\ (web.default_runs = 1 /\ web.default = "builtin") =>
               /\ web.response.status = 404
               /\ web.response.body = <<"404 Not Found">>

C30_Witness ==
    /\ web.phase = "done"
    /\ web.default = "builtin"
    /\ web.default_runs = 1
    /\ Len(web.routers) = 2
    /\ web.consulted = <<1, 2>>
    /\ web.response.status = 404
    /\ web.response.body = <<"404 Not Found">>

\* C31: when a middleware or route handler throws, the configured error
\* handler is invoked exactly once, with the exception that was raised;
\* when none is configured the response status is 500.
C31_ErrorHandlerGetsRaised ==
    (web.phase \in {"done", "escaped"} /\ web.threw) =>
        IF web.error_handler = "none"
        THEN web.response.status = 500
        ELSE web.error_args = <<Raised>>

\* C32: when the error handler itself throws, a minimal 500 response is
\* still written and the connection closed.
C32_ResponseAfterHandlerFailure ==
    (web.threw /\ web.error_handler = "throws" /\ web.phase # "queued") =>
        /\ web.response.sent = 1
        /\ web.response.status = 500
        /\ web.response.ended

C35_EveryTaskSendsAndEnds ==
    (web.enqueued = 1 /\ web.phase \in {"done", "escaped"}) =>
        /\ web.response.send_calls >= 1
        /\ web.response.ended

\* C37: the path parameters of a request change only for the route that
\* wins: when no route won they are as they were before the routers ran.
C37_ParamsOnlyFromWinner ==
    (web.phase \in {"done", "escaped"}
         /\ \A i \in 1..Len(web.log) : web.log[i].route = 0)
    => web.request.path_params = <<>>

\* ------------------------------------------------------------------------
\* The life of the server and of its connections: a peer that connects
\* again from the same address and port, shutdown, destruction, and the
\* detached sweeper thread
\* ------------------------------------------------------------------------
LifeInit ==
    /\ InitServer
    /\ web = NoWeb
    /\ stream \in {f \in [Conns -> ReuseStreams \cup LaterStreams] :
                      /\ f[FirstConn] \in ReuseStreams
                      /\ \A c \in Conns \ {FirstConn} :
                             f[c] = Request(GoodRequestLine, <<ContentLengthLine(DigitOf(2))>>,
                                            SubSeq(BodyBytes, 1, 2))}

\* the peer of the closed connection c connects again from the same address
\* and port: the new connection has c's remote endpoint string, and c now
\* stands for it; on_connection_closed left the parser as it was. The
\* peer connects again once.
Reconnect(c) ==
    /\ server.state = "running"
    /\ accepted[c] /\ ~open[c]
    /\ stream[c] \in ReuseStreams
    /\ \A d \in Conns : open[d] => native_handle(d) # native_handle(c)
    /\ \E s \in LaterStreams \cup {Request(GoodRequestLine, <<>>, <<>>)} :
           stream' = [stream EXCEPT ![c] = s]
    /\ open' = [open EXCEPT ![c] = TRUE]
    /\ reading' = [reading EXCEPT ![c] = TRUE]
    /\ pos' = [pos EXCEPT ![c] = 0]
    /\ firstCut' = [firstCut EXCEPT ![c] = 0]
    /\ result' = [result EXCEPT ![c] = NoResult]
    /\ completes' = [completes EXCEPT ![c] = 0]
    /\ requests' = [requests EXCEPT ![c] = <<>>]
    /\ headers_calls' = [headers_calls EXCEPT ![c] = <<>>]
    /\ UNCHANGED <<pending_requests_, parser_mutex_, inside, now, accepted, web, server,
                   close_calls, connection>>

\* epoll_server::shutdown: the poll loop stops and every connection is closed
Shutdown ==
    /\ server.state = "running"
    /\ server' = [server EXCEPT !.state = "shutdown"]
    /\ open' = [c \in Conns |-> FALSE]
    /\ reading' = [c \in Conns |-> FALSE]
    /\ UNCHANGED <<pending_requests_, parser_mutex_, inside, now, stream, pos, firstCut,
                   accepted, result, completes, requests, headers_calls, web, close_calls, connection>>

\* the http_server object is destroyed; the constructor detached the
\* sweeper thread, so nothing joins or stops it
Destroy ==
    /\ server.state \in {"running", "shutdown"}
    /\ server' = [server EXCEPT !.state = "destroyed"]
    /\ open' = [c \in Conns |-> FALSE]
    /\ reading' = [c \in Conns |-> FALSE]
    /\ UNCHANGED <<pending_requests_, parser_mutex_, inside, now, stream, pos, firstCut,
                   accepted, result, completes, requests, headers_calls, web, close_calls, connection>>

\* the sweeper thread's while (true) loop after the server stopped: it
\* calls cleanup_idle_connections, and close_connection for each idle state
LateSweep ==
    /\ server.state \in {"shutdown", "destroyed"}
    /\ cleanup
    /\ server' = [server EXCEPT !.late_cleanup = TRUE,
                                !.late_close = @ \/ close_calls' # close_calls]
    /\ UNCHANGED <<parser_mutex_, inside>>

\* the sweeper thread uses the parser of a destroyed server: the call may
\* also end the process
Crash ==
    /\ server.state = "destroyed"
    /\ server' = [server EXCEPT !.state = "crashed"]
    /\ UNCHANGED <<pending_requests_, parser_mutex_, inside, now, stream, pos, firstCut,
                   accepted, reading, open, result, completes, requests, headers_calls,
                   web, close_calls, connection>>

\* while the server runs the poll loop delivers bytes and the sweeper
\* thread sweeps
LifeNext ==
    \/ server.state = "running" /\ \E c \in Conns : \E k \in 1..Len(stream[c]) : Receive(c, k)
    \/ server.state = "running" /\ Sweep
    \/ Tick
    \/ \E c \in Conns : Close(c)
    \/ \E c \in Conns : Reconnect(c)
    \/ Shutdown
    \/ Destroy
    \/ LateSweep
    \/ Crash

LifeSpec == LifeInit /\ [][LifeNext]_vars

\* C38: parse() never throws: every call returns a parse result, and a
\* call that reports an error leaves the pending map as it was.
C38_ParseNeverThrows ==
    [][\A c \in Conns :
           result'[c] # result[c] =>
               /\ result'[c] # Threw
               /\ result'[c].method \in Sentinels => pending_requests_' = pending_requests_]_vars

\* what parse() returns for the first chunk of c when the pending map holds
\* no state
FreshResult(c) ==
    parse(NoPending, remote_endpoint(c), native_handle(c), FirstChunk(c), now).result

\* C39: the first bytes of a connection start a fresh parse: the result of
\* its first parse() call is the one an empty pending map gives, whatever
\* an earlier connection of the same remote endpoint left behind.
C39_FreshParsePerConnection ==
    \A c \in Conns :
        (firstCut[c] > 0 /\ pos[c] = firstCut[c]) => result[c] = FreshResult(c)

\* C40: after the server has been shut down or destroyed the sweeper thread
\* makes no cleanup_idle_connections call and no close_connection call.
C40_SweeperStops ==
    ~server.late_cleanup /\ ~server.late_close

\* the parse state of c can receive no further byte
Stalled(c) ==
    /\ remote_endpoint(c) \in DOMAIN pending_requests_
    /\ ~open[c] \/ ~reading[c] \/ pos[c] = Len(stream[c])

\* C36: with the sweeper thread scheduled, a parse state that receives no
\* further byte is eventually erased with its connection closed, and every
\* sweep leaves no state in the map that is idle for longer than the
\* threshold.
C36_StalledStateSwept ==
    /\ \A c \in Conns :
           Stalled(c) ~> (remote_endpoint(c) \notin DOMAIN pending_requests_ /\ ~open[c])
    /\ [][Sweep =>
              \A k \in DOMAIN pending_requests_' :
                  now - pending_requests_'[k].last_activity <= MAX_IDLE_TIME_SECONDS]_vars

C36_Witness ==
    \E c \in Conns :
        /\ firstCut[c] > 0
        /\ pos[c] < Len(stream[c])
        /\ result[c] # Threw /\ ~result[c].is_complete
        /\ remote_endpoint(c) \notin DOMAIN pending_requests_
        /\ ~open[c]
        /\ close_calls = <<native_handle(c)>>

\* ------------------------------------------------------------------------
\* sockets::connection: write, read, close
\* ------------------------------------------------------------------------
\* how many calls are made on the connection object
MaxOps == 4

\* connection::write of data, ::send taking the first sent bytes of it
\* (0: ::send fails and write throws socket_exception); what the call
\* returns, or that it threw, is appended to returned
connection_write(conn, data, sent) ==
    IF ~conn.open_ \/ conn.fd = INVALID_SOCKET_VALUE
    THEN [conn EXCEPT !.returned = Append(@, [op |-> "write", value |-> 0, threw |-> FALSE])]
    ELSE IF sent = 0
    THEN [conn EXCEPT !.returned = Append(@, [op |-> "write", value |-> 0, threw |-> TRUE])]
    ELSE [conn EXCEPT !.wire = @ \o SubSeq(data, 1, sent),
                      !.returned = Append(@, [op |-> "write", value |-> sent, threw |-> FALSE])]

\* connection::read, ::recv giving received (<<>>: end of stream, or no
\* data available) or failing
connection_read(conn, received, failed) ==
    IF ~conn.open_ \/ conn.fd = INVALID_SOCKET_VALUE
    THEN [conn EXCEPT !.returned = Append(@, [op |-> "read", value |-> <<>>, threw |-> FALSE])]
    ELSE IF failed
    THEN [conn EXCEPT !.returned = Append(@, [op |-> "read", value |-> <<>>, threw |-> TRUE])]
    ELSE [conn EXCEPT !.returned = Append(@, [op |-> "read", value |-> received, threw |-> FALSE])]

\* connection::close without the test of open_
connection_close_Unguarded(conn) ==
    [conn EXCEPT !.open_ = FALSE,
                 !.released = Append(@, conn.fd),
                 !.fd = INVALID_SOCKET_VALUE,
                 !.returned = Append(@, [op |-> "close", value |-> 0, threw |-> FALSE])]

\* connection::close: the first call releases the socket and invalidates fd
connection_close(conn) ==
    IF conn.open_
    THEN [conn EXCEPT !.open_ = FALSE,
                      !.released = Append(@, conn.fd),
                      !.fd = INVALID_SOCKET_VALUE,
                      !.returned = Append(@, [op |-> "close", value |-> 0, threw |-> FALSE])]
    ELSE [conn EXCEPT !.returned = Append(@, [op |-> "close", value |-> 0, threw |-> FALSE])]

ConnInit ==
    /\ InitServer
    /\ web = NoWeb
    /\ stream = [c \in Conns |-> Request(GoodRequestLine, <<>>, <<>>)]

ConnWrite ==
    /\ Len(connection.returned) < MaxOps
    /\ \E data \in {<<"a">>, <<"a", "b">>} : \E sent \in 0..Len(data) :
           connection' = connection_write(connection, data, sent)
    /\ UNCHANGED <<pending_requests_, parser_mutex_, inside, now, stream, pos, firstCut,
                   accepted, reading, open, result, completes, requests, headers_calls,
                   web, server, close_calls>>

ConnRead ==
    /\ Len(connection.returned) < MaxOps
    /\ \E received \in {<<>>, <<"x">>} : \E failed \in BOOLEAN :
           connection' = connection_read(connection, received, failed)
    /\ UNCHANGED <<pending_requests_, parser_mutex_, inside, now, stream, pos, firstCut,
                   accepted, reading, open, result, completes, requests, headers_calls,
                   web, server, close_calls>>

\* close(), called by the server, by a response's end() or by ~connection
ConnClose ==
    /\ Len(connection.returned) < MaxOps
    /\ connection' = connection_close(connection)
    /\ UNCHANGED <<pending_requests_, parser_mutex_, inside, now, stream, pos, firstCut,
                   accepted, reading, open, result, completes, requests, headers_calls,
                   web, server, close_calls>>

ConnNext == ConnWrite \/ ConnRead \/ ConnClose

ConnSpec == ConnInit /\ [][ConnNext]_vars

\* C34: close is idempotent and releases the OS socket exactly once; on a
\* closed connection a write sends nothing and returns 0, a read returns an
\* empty buffer, and the connection stays closed.
C34_ClosedConnectionInert ==
    /\ [](/\ Len(connection.released) <= 1
          /\ ~connection.open_ <=> Len(connection.released) = 1)
    /\ [][(~connection.open_ /\ connection' # connection) =>
              /\ ~connection'.open_
              /\ connection'.wire = connection.wire
              /\ connection'.released = connection.released
              /\ ~connection'.returned[Len(connection'.returned)].threw
              /\ connection'.returned[Len(connection'.returned)].value
                     = IF connection'.returned[Len(connection'.returned)].op = "read"
                       THEN <<>> ELSE 0]_vars

C34_Witness ==
    /\ ~connection.open_
    /\ connection.wire # <<>>
    /\ Len(connection.released) = 1
    /\ Len(connection.returned) = MaxOps
    /\ connection.returned[2].op = "close"
    /\ \E i \in 3..MaxOps : connection.returned[i].op = "close"
    /\ \E i \in 3..MaxOps : connection.returned[i].op = "write"

====
